---- MODULE Spec2Model ----
(***************************************************************************)
(* Lineage graph resolution of the recupare dashboard: the lineage-chain   *)
(* resolver (api/lineage/mermaid), the full-flow resolver (api/lineage/    *)
(* flow), the relationship lookup and the free-text search, over a store   *)
(* of tables, layers, columns, transformations and table_relationships.    *)
(***************************************************************************)
EXTENDS Integers, Sequences, FiniteSets, TLC

VARIABLES tables, transformations, table_relationships, pc, req, working, result, resp,
          sent, agentic_users, agentic_requests, calls

vars == <<tables, transformations, table_relationships, pc, req, working, result, resp,
          sent, agentic_users, agentic_requests, calls>>

\* the state of the lineage handlers and of the middleware
lineageVars == <<tables, transformations, table_relationships, pc, req, working, result,
                 resp, sent>>

\* the state of task submission
taskVars == <<agentic_users, agentic_requests, calls>>

(***************************************************************************)
(* Bounds of the model.                                                    *)
(***************************************************************************)
\* largest number of edges (rows of transformations / table_relationships)
MaxEdges == 3
\* largest max_depth parameter a full-flow request carries
MaxDepthParam == 4
\* number of task submissions that can be in progress together
MaxCalls == 2

(***************************************************************************)
(* Program constants.                                                      *)
(***************************************************************************)
\* WHERE lc.depth < 3 of the lineage_chain CTE
ChainDepthLimit == 3
\* parseInt(searchParams.get('max_depth') || '5')
DefaultMaxDepth == 5
\* query.length < 2
MinQueryLength == 2
\* LIMIT 10 of the three search queries
SearchLimit == 10
\* results.tables.slice(0, 3) / layers .slice(0, 3)
SuggestionLimit == 3

\* an absent request parameter (null / undefined) whose values are plain strings
NULL == "<null>"
\* an absent request parameter, or an SQL NULL, whose values are character sequences
NullText == <<"<null>">>

(***************************************************************************)
(* Text. Strings that the program inspects character by character are      *)
(* sequences of one-character strings.                                     *)
(***************************************************************************)
Alphabet == <<"%", "A", "B", "_", "a", "b", "c", "d">>

\* code point order of a character (its position in Alphabet)
Ord(c) == CHOOSE i \in 1..Len(Alphabet) : Alphabet[i] = c

\* lower-casing of one character (ILIKE compares case-insensitively)
LowerChar(c) == IF c = "A" THEN "a" ELSE IF c = "B" THEN "b" ELSE c

Lower(s) == [i \in 1..Len(s) |-> LowerChar(s[i])]

RECURSIVE StrLess(_, _)
\* s sorts strictly before t (ORDER BY name)
StrLess(s, t) ==
  IF t = <<>> THEN FALSE
  ELSE IF s = <<>> THEN TRUE
  ELSE IF Head(s) # Head(t) THEN Ord(Head(s)) < Ord(Head(t))
  ELSE StrLess(Tail(s), Tail(t))

RECURSIVE SumOver(_, _)
\* the sum of f[x] over the finite set S
SumOver(S, f) ==
  IF S = {} THEN 0
  ELSE LET x == CHOOSE y \in S : TRUE IN f[x] + SumOver(S \ {x}, f)

\* parseInt: the number a leading run of digits denotes; NaN without one
Digits == <<"0", "1", "2", "3", "4", "5">>

IsDigit(c) == \E i \in 1..Len(Digits) : Digits[i] = c

DigitValue(c) == (CHOOSE i \in 1..Len(Digits) : Digits[i] = c) - 1

IsNaN(s) == s = <<>> \/ ~IsDigit(s[1])

RECURSIVE ParseDigits(_, _)
ParseDigits(s, acc) ==
  IF s = <<>> \/ ~IsDigit(Head(s)) THEN acc
  ELSE ParseDigits(Tail(s), acc * 10 + DigitValue(Head(s)))

ParseInt(s) == ParseDigits(s, 0)

\* Math.max(...xs) of a non-empty set of numbers
MaxOf(S) == CHOOSE m \in S : \A x \in S : x <= m

\* the set of elements of a sequence
Range(s) == {s[i] : i \in DOMAIN s}

(***************************************************************************)
(* The store. layers is reference data; tables, transformations and        *)
(* table_relationships are rows chosen at Init; columns is fixed. sent     *)
(* counts the queries the current request has sent to the store.           *)
(***************************************************************************)
\* rows of layers, by id: the three medallion layers and one more
layers == [i \in 1..4 |-> <<"bronze", "silver", "gold", "staging">>[i]]

LayerIds == DOMAIN layers

LayerNames == {layers[i] : i \in LayerIds}

\* the ids of the rows of tables
TableIds == DOMAIN tables

\* the tables that transformations and relationships may join; a catalogue's
\* further tables stand alone
ConnectedTableIds == 1..3

ab == <<"a", "b">>
cd == <<"c", "d">>
abc == <<"a", "b", "c">>

\* the table catalogues a store is drawn from: distinct names in three layers;
\* and two tables of one layer (name order the reverse of id order) with a name
\* shared by two layers, one of them not a medallion layer, and two more
\* tables so that the catalogue spans four layers
TableCatalogues ==
  { <<[name |-> ab, layer_id |-> 1, description |-> NullText],
      [name |-> cd, layer_id |-> 2, description |-> ab],
      [name |-> abc, layer_id |-> 3, description |-> cd]>>,
    <<[name |-> cd, layer_id |-> 1, description |-> NullText],
      [name |-> ab, layer_id |-> 1, description |-> ab],
      [name |-> ab, layer_id |-> 4, description |-> cd],
      [name |-> abc, layer_id |-> 2, description |-> NullText],
      [name |-> abc, layer_id |-> 3, description |-> ab]>> }

TableNames == {ab, cd, abc}

\* rows of columns: id, name, table_id (layer_id is that of the table); the
\* third table has so many that a search can match more than its limit
columns ==
  { [id |-> 1, name |-> ab, table_id |-> 1],
    [id |-> 2, name |-> cd, table_id |-> 1],
    [id |-> 3, name |-> abc, table_id |-> 2] }
    \cup { [id |-> i, name |-> IF i % 2 = 0 THEN ab ELSE cd, table_id |-> 3] :
             i \in 4..(SearchLimit + 1) }

\* the directed edges a store may hold: every pair of distinct tables and a
\* self-loop on table 1 with the first kind, and a parallel edge of a second
\* kind on two pairs
EdgeCandidates ==
  { e \in [source : ConnectedTableIds, target : ConnectedTableIds, kind : {1}] :
      e.source # e.target \/ e.source = 1 }
    \cup { [source |-> 1, target |-> 2, kind |-> 2],
           [source |-> 2, target |-> 3, kind |-> 2] }

EdgeId(e) == (e.source - 1) * 6 + (e.target - 1) * 2 + e.kind

\* the sets of at most MaxEdges candidate edges
EdgeSets == {E \in SUBSET EdgeCandidates : Cardinality(E) <= MaxEdges}

\* a row of transformations
TransformationRow(e) ==
  [id |-> EdgeId(e), source_table_id |-> e.source, target_table_id |-> e.target,
   transformation_type |-> IF e.kind = 1 THEN "cleansing" ELSE "aggregation",
   name |-> IF e.kind = 1 THEN ab ELSE cd,
   description |-> IF e.kind = 1 THEN NullText ELSE abc]

\* a row of table_relationships; confidence_score in hundredths
RelationshipRow(e) ==
  [id |-> EdgeId(e), source_table_id |-> e.source, target_table_id |-> e.target,
   relationship_type |-> IF e.kind = 1 THEN "lineage" ELSE "enrichment",
   confidence_score |-> IF e.kind = 1 THEN 100 ELSE 50]

Init ==
  /\ tables \in TableCatalogues
  /\ \E E \in EdgeSets :
       /\ transformations = {TransformationRow(e) : e \in E}
       /\ table_relationships = {RelationshipRow(e) : e \in E}
  /\ pc = "idle"
  /\ req = [op |-> "none"]
  /\ working = <<>>
  /\ result = <<>>
  /\ resp = [op |-> "none"]
  /\ sent = 0
  /\ agentic_users = {}
  /\ agentic_requests = {}
  /\ calls = [c \in 1..MaxCalls |-> [pc |-> "idle"]]

\* a handler starts on a request; requests share no state, so the model
\* processes one at a time
Ready == pc = "idle"

LayerName(t) == layers[tables[t].layer_id]

\* !x of a text parameter: absent or the empty string
Missing(x) == x = NullText \/ x = <<>>

(***************************************************************************)
(* Bags of rows (UNION ALL keeps duplicate rows): a function from the      *)
(* distinct rows to their number of copies.                                *)
(***************************************************************************)
EmptyRows == <<>>

RowSet(B) == DOMAIN B

Copies(B, r) == IF r \in DOMAIN B THEN B[r] ELSE 0

\* UNION ALL of two bags
UnionAll(A, B) == [r \in DOMAIN A \cup DOMAIN B |-> Copies(A, r) + Copies(B, r)]

\* s repeated n times
Repeat(r, n) == [i \in 1..n |-> r]

(***************************************************************************)
(* Lineage chain: POST /api/lineage/mermaid.                               *)
(***************************************************************************)
ChainBaseAnyLayer(table_name, layer) ==
  LET seeds == {t \in TableIds : tables[t].name = table_name}
  IN [r \in {[id |-> t, depth |-> 0] : t \in seeds} |-> 1]

\* non-recursive term of lineage_chain: the selected table at depth 0
ChainBase(table_name, layer) ==
  LET seeds == {t \in TableIds : tables[t].name = table_name /\ LayerName(t) = layer}
  IN [r \in {[id |-> t, depth |-> 0] : t \in seeds} |-> 1]

ChainDepthGuardOff(lc) == TRUE

\* WHERE clause of the recursive term
ChainDepthGuard(lc) == lc.depth < ChainDepthLimit

\* recursive term of lineage_chain evaluated on the working table W: one row per
\* (working row, transformation out of its table), the target one level deeper
ChainRecursive(W) ==
  LET pairs == {p \in RowSet(W) \X transformations :
                  p[1].id = p[2].source_table_id /\ ChainDepthGuard(p[1])}
      out(p) == [id |-> p[2].target_table_id, depth |-> p[1].depth + 1]
      cnt == [p \in pairs |-> W[p[1]]]
  IN [r \in {out(p) : p \in pairs} |-> SumOver({p \in pairs : out(p) = r}, cnt)]

\* the orders in which rows with equal (layer_id, name) can come out of
\* ORDER BY layer_id, name: SQL leaves the order of such rows open; the model
\* takes every order of their depth values
TieOrders == Permutations(0..ChainDepthLimit)

\* row a comes before row b under ORDER BY layer_id, name, ties by tie[depth]
ChainRowBefore(a, b, tie) ==
  LET ta == tables[a.id]
      tb == tables[b.id]
  IN IF ta.layer_id # tb.layer_id THEN ta.layer_id < tb.layer_id
     ELSE IF ta.name # tb.name THEN StrLess(ta.name, tb.name)
     ELSE IF a.id # b.id THEN a.id < b.id
     ELSE tie[a.depth] < tie[b.depth]

RECURSIVE ChainOrdered(_, _)
\* SELECT * FROM lineage_chain ORDER BY layer_id, name: the rows of bag B in order
ChainOrdered(B, tie) ==
  IF RowSet(B) = {} THEN <<>>
  ELSE LET first == CHOOSE r \in RowSet(B) :
                      \A x \in RowSet(B) \ {r} : ChainRowBefore(r, x, tie)
       IN Repeat(first, B[first])
            \o ChainOrdered([x \in RowSet(B) \ {first} |-> B[x]], tie)

\* SELECT COUNT(*) FROM columns WHERE table_id = id, through parseInt
ColumnCount(id) == Cardinality({c \in columns : c.table_id = id})

\* row.description || `${row.name} table in ${row.layer} layer`
NodeDescription(t) ==
  IF Missing(tables[t].description)
  THEN tables[t].name \o <<" table in ", LayerName(t), " layer">>
  ELSE tables[t].description

\* nodes.push({...}) for one row of the lineage query
ChainNode(row) ==
  [id |-> row.id, name |-> tables[row.id].name, layer |-> LayerName(row.id),
   layer_id |-> tables[row.id].layer_id, depth |-> row.depth,
   column_count |-> ColumnCount(row.id), description |-> NodeDescription(row.id)]

ChainNodes(rows) == [i \in 1..Len(rows) |-> ChainNode(rows[i])]

TransformationsBetweenReversed(sourceNode, targetNode) ==
  {t \in transformations :
     t.source_table_id = targetNode.id /\ t.target_table_id = sourceNode.id}

\* rows of the transformation query between two nodes
TransformationsBetween(sourceNode, targetNode) ==
  {t \in transformations :
     t.source_table_id = sourceNode.id /\ t.target_table_id = targetNode.id}

RECURSIVE ChainEdgesFrom(_, _)
\* the edge lists the loop over consecutive nodes i, i+1 can build from index i
\* on: an edge when a transformation joins the two, typed by the first row
\* returned (any of the rows, the query has no ORDER BY)
ChainEdgesFrom(nodes, i) ==
  IF i >= Len(nodes) THEN {<<>>}
  ELSE LET rows == TransformationsBetween(nodes[i], nodes[i + 1])
           rest == ChainEdgesFrom(nodes, i + 1)
       IN IF rows = {} THEN rest
          ELSE { <<[source |-> nodes[i].name, target |-> nodes[i + 1].name,
                    source_layer |-> nodes[i].layer,
                    target_layer |-> nodes[i + 1].layer,
                    transformation_type |-> t.transformation_type]>> \o es
                 : t \in rows, es \in rest }

\* [...new Set(nodes.map(n => n.layer))]: the layers in order of first occurrence
RECURSIVE DistinctInOrder(_)
DistinctInOrder(s) ==
  IF s = <<>> THEN <<>>
  ELSE LET init == DistinctInOrder(SubSeq(s, 1, Len(s) - 1))
           last == s[Len(s)]
       IN IF last \in Range(init) THEN init ELSE Append(init, last)

\* layerName.toUpperCase()
UpperCase(layerName) ==
  CASE layerName = "bronze" -> "BRONZE"
    [] layerName = "silver" -> "SILVER"
    [] layerName = "gold" -> "GOLD"
    [] layerName = "staging" -> "STAGING"

\* `${layerName.charAt(0).toUpperCase() + layerName.slice(1)} Layer`
LayerTitle(layerName) ==
  CASE layerName = "bronze" -> "Bronze Layer"
    [] layerName = "silver" -> "Silver Layer"
    [] layerName = "gold" -> "Gold Layer"
    [] layerName = "staging" -> "Staging Layer"

\* layerDescription
LayerDescription(layerName) ==
  IF layerName = "bronze" THEN "Raw Data"
  ELSE IF layerName = "silver" THEN "Cleansed Data"
  ELSE "Business Ready"

\* `${node.layer.toUpperCase()}_${node.name}`
NodeId(layer, name) == <<UpperCase(layer), "_">> \o name

\* nodesByLayer[layerName]: the nodes of a layer in the order of the node list
LayerNodes(nodes, layerName) == SelectSeq(nodes, LAMBDA n : n.layer = layerName)

\* the lines of one subgraph: its opening with title and description, one
\* declaration per node of the layer, its end
SubgraphLines(layerName, layerNodes) ==
  <<[kind |-> "subgraph", title |-> LayerTitle(layerName),
     description |-> LayerDescription(layerName)]>>
    \o [i \in 1..Len(layerNodes) |->
          [kind |-> "node", id |-> NodeId(layerNodes[i].layer, layerNodes[i].name),
           name |-> layerNodes[i].name, column_count |-> layerNodes[i].column_count,
           description |-> layerNodes[i].description]]
    \o <<[kind |-> "end"]>>

RECURSIVE Flatten(_)
\* the concatenation of a sequence of sequences of lines
Flatten(ss) == IF ss = <<>> THEN <<>> ELSE Head(ss) \o Flatten(Tail(ss))

ConnectionLineReversed(edge) ==
  [kind |-> "connection", source |-> NodeId(edge.target_layer, edge.target),
   label |-> edge.transformation_type,
   target |-> NodeId(edge.source_layer, edge.source)]

\* `    ${sourceId} -->|${edge.transformation_type}| ${targetId}`
ConnectionLine(edge) ==
  [kind |-> "connection", source |-> NodeId(edge.source_layer, edge.source),
   label |-> edge.transformation_type,
   target |-> NodeId(edge.target_layer, edge.target)]

\* mermaidSyntax: the diagram text as its sequence of lines. Object.entries
\* lists the layers in the order in which they were first inserted
MermaidSyntax(nodes, edges) ==
  LET layerNames == DistinctInOrder([i \in 1..Len(nodes) |-> nodes[i].layer])
      byLayer == [k \in 1..Len(layerNames) |-> LayerNodes(nodes, layerNames[k])]
  IN <<[kind |-> "graph", direction |-> "LR"]>>
       \o Flatten([k \in 1..Len(layerNames) |-> SubgraphLines(layerNames[k], byLayer[k])])
       \o [k \in 1..Len(edges) |-> ConnectionLine(edges[k])]
       \o <<[kind |-> "comment"], [kind |-> "classDef", class |-> "bronze"],
            [kind |-> "classDef", class |-> "silver"],
            [kind |-> "classDef", class |-> "gold"]>>
       \o Flatten([k \in 1..Len(layerNames) |->
                     [i \in 1..Len(byLayer[k]) |->
                       [kind |-> "class",
                        id |-> NodeId(byLayer[k][i].layer, byLayer[k][i].name),
                        class |-> layerNames[k]]]])

ChainSuccess(nodes, edges) ==
  [op |-> "chain", status |-> 200, error |-> NULL,
   nodes |-> nodes, edges |-> edges,
   mermaid_syntax |-> MermaidSyntax(nodes, edges),
   selected_table |-> req.table_name, selected_layer |-> req.layer,
   total_depth |-> IF Len(nodes) > 0
                   THEN MaxOf({nodes[i].depth : i \in 1..Len(nodes)}) ELSE 0,
   layers_involved |-> DistinctInOrder([i \in 1..Len(nodes) |-> nodes[i].layer])]

ChainFailure(status, table_name, layer, error) ==
  [op |-> "chain", status |-> status, error |-> error,
   nodes |-> <<>>, edges |-> <<>>, mermaid_syntax |-> <<>>,
   selected_table |-> table_name, selected_layer |-> layer,
   total_depth |-> 0, layers_involved |-> <<>>]

ChainCatchKeepsProgress(nodes, edges, error) ==
  [ChainFailure(500, <<>>, "", error) EXCEPT !.nodes = nodes, !.edges = edges]

\* catch: the answer to a failed store query, reached with the nodes and edges
\* gathered so far in the handler's local variables
ChainCatch(nodes, edges, error) == ChainFailure(500, <<>>, "", error)

\* the request as the handler holds it: the body, and which of the queries it
\* sends the store fails to answer (storeUp: the recursive query is answered;
\* failedQuery: the number of the failing query in the order sent, 0 for none)
ChainRequest(table_name, layer, direction, storeUp, failedQuery) ==
  [op |-> "chain", table_name |-> table_name, layer |-> layer,
   direction |-> IF direction = NULL THEN "both" ELSE direction,
   storeUp |-> storeUp, failedQuery |-> failedQuery]

\* POST: parse the body, validate, start the recursive query
ChainPost(table_name, layer, direction, storeUp) ==
  /\ Ready
  /\ IF Missing(table_name) \/ layer = NULL \/ layer = ""
     THEN /\ pc' = "done"
          /\ req' = ChainRequest(table_name, layer, direction, storeUp, 0)
          /\ resp' = ChainFailure(400,
                                  IF Missing(table_name) THEN <<>> ELSE table_name,
                                  IF layer = NULL THEN "" ELSE layer,
                                  "table_name and layer are required")
          /\ working' = EmptyRows
          /\ result' = EmptyRows
          /\ sent' = 0
     ELSE IF ~storeUp
     THEN /\ pc' = "done"
          /\ req' = ChainRequest(table_name, layer, direction, storeUp, 1)
          /\ resp' = ChainCatch(<<>>, <<>>, "Database error")
          /\ working' = EmptyRows
          /\ result' = EmptyRows
          /\ sent' = 1
     ELSE /\ pc' = "chain_cte"
          /\ req' = ChainRequest(table_name, layer, direction, storeUp, 0)
          /\ resp' = [op |-> "none"]
          /\ working' = ChainBase(table_name, layer)
          /\ result' = ChainBase(table_name, layer)
          /\ sent' = 1
  /\ UNCHANGED <<taskVars, tables, transformations, table_relationships>>

\* one iteration of the recursive query: the recursive term is evaluated on the
\* working table, its rows are appended to the result and become the working table
ChainCteStep ==
  /\ pc = "chain_cte"
  /\ RowSet(working) # {}
  /\ working' = ChainRecursive(working)
  /\ result' = UnionAll(result, ChainRecursive(working))
  /\ UNCHANGED <<taskVars, tables, transformations, table_relationships, pc, req, resp, sent>>

\* the recursive query has ended (empty working table): order the rows, build
\* nodes (one column-count query per row), edges (one transformation query per
\* pair of consecutive nodes), metadata and diagram, answer. Any of the queries
\* can fail: queries 2 .. n + 1 are the column counts, n + 2 .. 2n the
\* transformation queries; a failure leaves the loop for the catch
ChainAssemble ==
  /\ pc = "chain_cte"
  /\ RowSet(working) = {}
  /\ \E tie \in TieOrders :
       LET nodes == ChainNodes(ChainOrdered(result, tie))
           n == Len(nodes)
       IN \/ /\ \E edges \in ChainEdgesFrom(nodes, 1) :
                  resp' = ChainSuccess(nodes, edges)
             /\ req' = req
             /\ sent' = IF n = 0 THEN 1 ELSE 2 * n
          \/ \E k \in 2..(2 * n) :
               /\ IF k <= n + 1
                  THEN resp' = ChainCatch(SubSeq(nodes, 1, k - 2), <<>>, "Database error")
                  ELSE \E edges \in ChainEdgesFrom(SubSeq(nodes, 1, k - n - 1), 1) :
                         resp' = ChainCatch(nodes, edges, "Database error")
               /\ req' = [req EXCEPT !.failedQuery = k]
               /\ sent' = k
  /\ pc' = "done"
  /\ UNCHANGED <<taskVars, tables, transformations, table_relationships, working, result>>

(***************************************************************************)
(* Full flow: GET /api/lineage/flow.                                       *)
(***************************************************************************)
\* a row of data_flow for relationship tr at a depth along a path; the other
\* selected columns are those of tr and of its two tables
FlowRow(tr, depth, path) ==
  [relationship_id |-> tr.id, source_table_id |-> tr.source_table_id,
   target_table_id |-> tr.target_table_id, depth |-> depth, path |-> path]

\* non-recursive term: relationships out of the start table, or out of every
\* bronze table when no start table is given
FlowBase(startTable) ==
  { FlowRow(tr, 1, <<tr.source_table_id>>) :
      tr \in { r \in table_relationships :
                 IF ~Missing(startTable)
                 THEN tables[r.source_table_id].name = startTable
                 ELSE LayerName(r.source_table_id) = "bronze" } }

\* NOT (tr.source_table_id = ANY(df.path))
FlowPathGuard(tr, df) == tr.source_table_id \notin Range(df.path)

\* WHERE of the recursive term. With end_table the text reads
\*   df.depth < D AND NOT (...) AND tt.name != 'end' OR df.depth = D - 1
\* and AND binds tighter than OR
FlowWhere(tr, df, maxDepth, endTable) ==
  IF ~Missing(endTable)
  THEN \/ /\ df.depth < maxDepth
          /\ FlowPathGuard(tr, df)
          /\ tables[tr.target_table_id].name # endTable
       \/ df.depth = maxDepth - 1
  ELSE /\ df.depth < maxDepth
       /\ FlowPathGuard(tr, df)

\* recursive term evaluated on the working table W. Rows are kept as a set:
\* UNION ALL can only repeat identical rows, which SELECT DISTINCT * merges,
\* and the rows the term yields do not depend on how often a row is repeated
FlowRecursive(W, maxDepth, endTable) ==
  { FlowRow(p[1], p[2].depth + 1, Append(p[2].path, p[1].source_table_id)) :
      p \in { q \in table_relationships \X W :
                /\ q[1].source_table_id = q[2].target_table_id
                /\ FlowWhere(q[1], q[2], maxDepth, endTable) } }

RECURSIVE FlowClosure(_, _, _, _)
\* WITH RECURSIVE data_flow evaluated to its end: the recursive term is applied
\* to the working table W until it yields no row; R collects the rows
FlowClosure(W, R, maxDepth, endTable) ==
  IF W = {} THEN R
  ELSE LET new == FlowRecursive(W, maxDepth, endTable)
       IN FlowClosure(new, R \cup new, maxDepth, endTable)

\* the rows of data_flow for a request
FlowRows(startTable, maxDepth, endTable) ==
  FlowClosure(FlowBase(startTable), FlowBase(startTable), maxDepth, endTable)

Relationship(id) == CHOOSE tr \in table_relationships : tr.id = id

\* ORDER BY depth, confidence_score DESC: row a must come before row b
FlowRowBefore(a, b) ==
  \/ a.depth < b.depth
  \/ /\ a.depth = b.depth
     /\ Relationship(a.relationship_id).confidence_score
          > Relationship(b.relationship_id).confidence_score

RECURSIVE PathLess(_, _)
\* path p precedes path q, element by element
PathLess(p, q) ==
  IF q = <<>> THEN FALSE
  ELSE IF p = <<>> THEN TRUE
  ELSE IF Head(p) # Head(q) THEN Head(p) < Head(q)
  ELSE PathLess(Tail(p), Tail(q))

\* the orders in which rows that tie on (depth, confidence_score) can come:
\* SQL leaves it open; the model takes the two orders of (relationship_id, path)
FlowTieOrders == {"asc", "desc"}

FlowTieBefore(a, b, tie) ==
  LET lt == \/ a.relationship_id < b.relationship_id
            \/ /\ a.relationship_id = b.relationship_id
               /\ PathLess(a.path, b.path)
  IN IF tie = "asc" THEN lt ELSE ~lt

RECURSIVE FlowOrdered(_, _)
\* SELECT DISTINCT * FROM data_flow ORDER BY depth, confidence_score DESC:
\* the rows of the set S in order
FlowOrdered(S, tie) ==
  IF S = {} THEN <<>>
  ELSE LET first == CHOOSE r \in S : \A x \in S \ {r} :
                      \/ FlowRowBefore(r, x)
                      \/ ~FlowRowBefore(x, r) /\ FlowTieBefore(r, x, tie)
       IN <<first>> \o FlowOrdered(S \ {first}, tie)

FlowNode(t) == [id |-> t, name |-> tables[t].name, layer |-> LayerName(t), type |-> "table"]

RECURSIVE FlowNodeKeysSourcesOnly(_)
FlowNodeKeysSourcesOnly(rows) ==
  IF rows = <<>> THEN <<>>
  ELSE LET init == FlowNodeKeysSourcesOnly(SubSeq(rows, 1, Len(rows) - 1))
           row == rows[Len(rows)]
       IN IF row.source_table_id \in Range(init) THEN init
          ELSE Append(init, row.source_table_id)

RECURSIVE FlowNodeKeys(_)
\* keys of the nodes Map in insertion order: per row its source, then its
\* target, each only if not yet present
FlowNodeKeys(rows) ==
  IF rows = <<>> THEN <<>>
  ELSE LET init == FlowNodeKeys(SubSeq(rows, 1, Len(rows) - 1))
           row == rows[Len(rows)]
           withSource == IF row.source_table_id \in Range(init) THEN init
                         ELSE Append(init, row.source_table_id)
       IN IF row.target_table_id \in Range(withSource) THEN withSource
          ELSE Append(withSource, row.target_table_id)

\* edges.push({...}) for one row; parseFloat(confidence_score.toString()) is
\* the number itself
FlowEdge(row) ==
  [id |-> row.relationship_id, source |-> row.source_table_id,
   target |-> row.target_table_id,
   type |-> Relationship(row.relationship_id).relationship_type,
   confidence |-> Relationship(row.relationship_id).confidence_score,
   depth |-> row.depth]

FlowSuccess(rows) ==
  LET keys == FlowNodeKeys(rows)
      nodeArray == [i \in 1..Len(keys) |-> FlowNode(keys[i])]
      edges == [i \in 1..Len(rows) |-> FlowEdge(rows[i])]
  IN [op |-> "flow", status |-> 200, error |-> NULL,
      nodes |-> nodeArray, edges |-> edges,
      summary |-> [total_nodes |-> Len(keys), total_edges |-> Len(edges),
                   max_depth |-> IF Len(edges) > 0
                                 THEN MaxOf({edges[i].depth : i \in 1..Len(edges)})
                                 ELSE 0,
                   layers |-> DistinctInOrder([i \in 1..Len(keys) |-> nodeArray[i].layer])]]

\* the catch branch answers with the empty shape and no status (200)
FlowFailure(error) ==
  [op |-> "flow", status |-> 200, error |-> error, nodes |-> <<>>, edges |-> <<>>,
   summary |-> [total_nodes |-> 0, total_edges |-> 0, max_depth |-> 0, layers |-> <<>>]]

\* parseInt(searchParams.get('max_depth') || '5')
FlowMaxDepth(max_depth) ==
  IF Missing(max_depth) THEN DefaultMaxDepth ELSE ParseInt(max_depth)

\* GET: read the parameters and start the recursive query; a max_depth that is
\* no number puts NaN into the query text, which the store rejects
FlowGet(start_table, end_table, max_depth, storeUp) ==
  /\ Ready
  /\ req' = [op |-> "flow", start_table |-> start_table, end_table |-> end_table,
             max_depth |-> max_depth, maxDepth |-> FlowMaxDepth(max_depth),
             storeUp |-> storeUp]
  /\ IF ~storeUp \/ (~Missing(max_depth) /\ IsNaN(max_depth))
     THEN /\ pc' = "done"
          /\ resp' = FlowFailure("store error")
          /\ working' = {}
          /\ result' = {}
     ELSE /\ pc' = "flow_cte"
          /\ resp' = [op |-> "none"]
          /\ working' = FlowBase(start_table)
          /\ result' = FlowBase(start_table)
  /\ sent' = 1
  /\ UNCHANGED <<taskVars, tables, transformations, table_relationships>>

\* one iteration of the recursive query
FlowCteStep ==
  /\ pc = "flow_cte"
  /\ working # {}
  /\ working' = FlowRecursive(working, req.maxDepth, req.end_table)
  /\ result' = result \cup FlowRecursive(working, req.maxDepth, req.end_table)
  /\ UNCHANGED <<taskVars, tables, transformations, table_relationships, pc, req, resp, sent>>

\* the recursive query has ended: order the rows, build the node map, the
\* edges and the summary, answer
FlowAssemble ==
  /\ pc = "flow_cte"
  /\ working = {}
  /\ \E tie \in FlowTieOrders : resp' = FlowSuccess(FlowOrdered(result, tie))
  /\ pc' = "done"
  /\ UNCHANGED <<taskVars, tables, transformations, table_relationships, req, working, result, sent>>

DepthParams == {NullText, <<"x">>} \cup {<<Digits[d + 1]>> : d \in 0..MaxDepthParam}

FlowRequests ==
  \E start_table \in TableNames \cup {NullText},
     end_table \in TableNames \cup {NullText},
     max_depth \in DepthParams,
     storeUp \in BOOLEAN :
    FlowGet(start_table, end_table, max_depth, storeUp)

(***************************************************************************)
(* Relationship lookup: GET /api/lineage/relationships.                    *)
(***************************************************************************)
\* WHERE clause of the table_id branch
RelWhereById(tr, id, direction) ==
  IF direction = "upstream" THEN tr.target_table_id = id
  ELSE IF direction = "downstream" THEN tr.source_table_id = id
  ELSE tr.source_table_id = id \/ tr.target_table_id = id

\* CASE WHEN tr.source_table_id = $1 THEN 'downstream' ELSE 'upstream' END
RelLabelById(tr, id) ==
  IF tr.source_table_id = id THEN "downstream" ELSE "upstream"

\* WHERE clause of the table_name branch
RelWhereByName(tr, name, direction) ==
  IF direction = "upstream" THEN tables[tr.target_table_id].name = name
  ELSE IF direction = "downstream" THEN tables[tr.source_table_id].name = name
  ELSE tables[tr.source_table_id].name = name \/ tables[tr.target_table_id].name = name

\* CASE WHEN st.name = $1 THEN 'downstream' ELSE 'upstream' END
RelLabelByName(tr, name) ==
  IF tables[tr.source_table_id].name = name THEN "downstream" ELSE "upstream"

\* one selected row
RelRow(tr, label) ==
  [id |-> tr.id, relationship_type |-> tr.relationship_type,
   confidence_score |-> tr.confidence_score,
   source_table |-> tables[tr.source_table_id].name,
   source_table_id |-> tr.source_table_id,
   source_layer |-> LayerName(tr.source_table_id),
   target_table |-> tables[tr.target_table_id].name,
   target_table_id |-> tr.target_table_id,
   target_layer |-> LayerName(tr.target_table_id),
   direction |-> label]

\* the rows the built query selects
RelSelect(table_id, table_name, direction) ==
  IF ~Missing(table_id)
  THEN { RelRow(tr, RelLabelById(tr, ParseInt(table_id))) :
           tr \in {r \in table_relationships :
                     RelWhereById(r, ParseInt(table_id), direction)} }
  ELSE IF ~Missing(table_name)
  THEN { RelRow(tr, RelLabelByName(tr, table_name)) :
           tr \in {r \in table_relationships :
                     RelWhereByName(r, table_name, direction)} }
  ELSE { RelRow(tr, "both") : tr \in table_relationships }

\* the orders in which rows of equal confidence_score can come (SQL leaves it
\* open): ascending or descending id
RelTieOrders == {"asc", "desc"}

RECURSIVE RelOrdered(_, _)
\* ORDER BY tr.confidence_score DESC
RelOrdered(S, tie) ==
  IF S = {} THEN <<>>
  ELSE LET first == CHOOSE r \in S : \A x \in S \ {r} :
                      \/ r.confidence_score > x.confidence_score
                      \/ /\ r.confidence_score = x.confidence_score
                         /\ IF tie = "asc" THEN r.id < x.id ELSE r.id > x.id
       IN <<first>> \o RelOrdered(S \ {first}, tie)

RECURSIVE Gcd(_, _)
Gcd(a, b) == IF b = 0 THEN a ELSE Gcd(b, a % b)

\* the quotient a / b of a division of numbers, kept exact as a fraction in
\* lowest terms <<numerator, denominator>>
Quotient(a, b) == <<a \div Gcd(a, b), b \div Gcd(a, b)>>

RECURSIVE ReduceConfidence(_, _)
\* relationships.reduce((sum, r) => sum + parseFloat(r.confidence_score.toString()), 0)
ReduceConfidence(rows, sum) ==
  IF rows = <<>> THEN sum
  ELSE ReduceConfidence(Tail(rows), sum + Head(rows).confidence_score)

AvgConfidenceSkipsFirst(relationships) ==
  IF Len(relationships) > 0
  THEN Quotient(ReduceConfidence(Tail(relationships), 0), Len(relationships))
  ELSE <<0, 1>>

\* avgConfidence
AvgConfidence(relationships) ==
  IF Len(relationships) > 0
  THEN Quotient(ReduceConfidence(relationships, 0), Len(relationships))
  ELSE <<0, 1>>

CountDirection(relationships, label) ==
  Cardinality({i \in 1..Len(relationships) : relationships[i].direction = label})

RelTotalUpstreamPlusDownstream(relationships) ==
  CountDirection(relationships, "upstream") + CountDirection(relationships, "downstream")

\* summary.total
RelTotal(relationships) == Len(relationships)

RelSuccess(relationships) ==
  [op |-> "relationships", status |-> 200, error |-> NULL,
   relationships |-> relationships,
   summary |-> [total |-> RelTotal(relationships),
                upstream |-> CountDirection(relationships, "upstream"),
                downstream |-> CountDirection(relationships, "downstream"),
                avg_confidence |-> AvgConfidence(relationships)]]

\* the empty shape with an error message (no status is set: 200)
RelFailure(error) ==
  [op |-> "relationships", status |-> 200, error |-> error,
   relationships |-> <<>>,
   summary |-> [total |-> 0, upstream |-> 0, downstream |-> 0,
                avg_confidence |-> <<0, 1>>]]

\* GET: the whole handler
RelGet(table_id, table_name, direction, storeUp) ==
  /\ Ready
  /\ req' = [op |-> "relationships", table_id |-> table_id, table_name |-> table_name,
             direction |-> IF direction = NULL THEN "both" ELSE direction,
             storeUp |-> storeUp]
  /\ IF ~Missing(table_id) /\ IsNaN(table_id)
     THEN resp' = RelFailure("Invalid table ID") /\ sent' = 0
     ELSE IF ~storeUp
     THEN resp' = RelFailure("store error") /\ sent' = 1
     ELSE /\ \E tie \in RelTieOrders :
               resp' = RelSuccess(RelOrdered(
                         RelSelect(table_id, table_name,
                                   IF direction = NULL THEN "both" ELSE direction), tie))
          /\ sent' = 1
  /\ pc' = "done"
  /\ UNCHANGED <<taskVars, tables, transformations, table_relationships, working, result>>

TableIdParams == {NullText, <<"x">>} \cup {<<Digits[t + 1]>> : t \in ConnectedTableIds}

RelRequests ==
  \E table_id \in TableIdParams,
     table_name \in TableNames \cup {NullText},
     direction \in {NULL, "upstream", "downstream", "both"},
     storeUp \in BOOLEAN :
    RelGet(table_id, table_name, direction, storeUp)

(***************************************************************************)
(* Free-text search: GET /api/lineage/search.                              *)
(***************************************************************************)
RECURSIVE LikeMatch(_, _)
\* text LIKE pattern: % matches any run of characters, _ any one character
LikeMatch(pattern, text) ==
  IF pattern = <<>> THEN text = <<>>
  ELSE IF Head(pattern) = "%"
  THEN \/ LikeMatch(Tail(pattern), text)
       \/ text # <<>> /\ LikeMatch(pattern, Tail(text))
  ELSE /\ text # <<>>
       /\ Head(pattern) = "_" \/ Head(pattern) = Head(text)
       /\ LikeMatch(Tail(pattern), Tail(text))

\* value ILIKE `%${query}%`; a NULL value matches nothing
ILike(value, query) ==
  /\ value # NullText
  /\ LikeMatch(<<"%">> \o Lower(query) \o <<"%">>, Lower(value))

SearchTableRow(t) ==
  [id |-> t, name |-> tables[t].name, description |-> tables[t].description,
   layer |-> LayerName(t)]

SearchColumnRow(c) ==
  [id |-> c.id, name |-> c.name, table_name |-> tables[c.table_id].name,
   layer |-> LayerName(c.table_id)]

SearchTransformationRow(t) ==
  [id |-> t.id, name |-> t.name, description |-> t.description,
   transformation_type |-> t.transformation_type,
   source_table |-> tables[t.source_table_id].name,
   target_table |-> tables[t.target_table_id].name]

\* the orders in which rows of equal sort key can come: ascending or descending id
SearchTieOrders == {"asc", "desc"}

RECURSIVE SearchOrdered(_, _, _)
\* ORDER BY name (byName), or by a column the rows do not carry
\* (t.confidence_score of transformations); ties by id
SearchOrdered(S, byName, tie) ==
  IF S = {} THEN <<>>
  ELSE LET first == CHOOSE r \in S : \A x \in S \ {r} :
                      \/ byName /\ StrLess(r.name, x.name)
                      \/ /\ ~byName \/ r.name = x.name
                         /\ IF tie = "asc" THEN r.id < x.id ELSE r.id > x.id
       IN <<first>> \o SearchOrdered(S \ {first}, byName, tie)

TakeAll(s, n) == s

\* LIMIT n / slice(0, n)
Take(s, n) == SubSeq(s, 1, IF Len(s) < n THEN Len(s) ELSE n)

SearchTables(query, tie) ==
  Take(SearchOrdered({ SearchTableRow(t) : t \in {x \in TableIds :
                          ILike(tables[x].name, query)
                            \/ ILike(tables[x].description, query)} },
                     TRUE, tie), SearchLimit)

SearchColumns(query, tie) ==
  Take(SearchOrdered({ SearchColumnRow(c) : c \in {x \in columns : ILike(x.name, query)} },
                     TRUE, tie), SearchLimit)

SearchTransformations(query, tie) ==
  Take(SearchOrdered({ SearchTransformationRow(t) : t \in {x \in transformations :
                          ILike(x.name, query) \/ ILike(x.description, query)} },
                     FALSE, tie), SearchLimit)

\* results.total
SearchTotal(found) ==
  Len(found.tables) + Len(found.columns) + Len(found.transformations)

SearchSuccess(query, found) ==
  [op |-> "search", status |-> 200, error |-> NULL, query |-> query,
   results |-> [tables |-> found.tables, columns |-> found.columns,
                transformations |-> found.transformations,
                total |-> SearchTotal(found)],
   suggestions |->
     [tables |-> [i \in 1..Len(Take(found.tables, SuggestionLimit)) |-> found.tables[i].name],
      layers |-> Take(DistinctInOrder([i \in 1..Len(found.tables) |-> found.tables[i].layer]),
                      SuggestionLimit)]]

SearchFailure(status, query, error) ==
  [op |-> "search", status |-> status, error |-> error, query |-> query,
   results |-> [tables |-> <<>>, columns |-> <<>>, transformations |-> <<>>, total |-> 0],
   suggestions |-> [tables |-> <<>>, layers |-> <<>>]]

QueryTooShortOnlyMissing(query) == Missing(query)

\* !query || query.length < 2
QueryTooShort(query) == Missing(query) \/ Len(query) < MinQueryLength

\* GET: the whole handler
SearchGet(q, type, storeUp) ==
  LET ty == IF type = NULL THEN "all" ELSE type
      wantsTransformations == ty = "all" \/ ty = "transformations"
  IN
  /\ Ready
  /\ req' = [op |-> "search", q |-> q, type |-> ty, storeUp |-> storeUp]
  /\ IF QueryTooShort(q)
     THEN /\ resp' = SearchFailure(400, IF Missing(q) THEN <<>> ELSE q,
                                   "Query must be at least 2 characters long")
          /\ sent' = 0
     ELSE IF ~storeUp
     THEN resp' = SearchFailure(500, q, "store error") /\ sent' = 1
     ELSE /\ \E tie \in SearchTieOrders :
               resp' = SearchSuccess(q,
                 [tables |-> IF ty \in {"all", "tables"} THEN SearchTables(q, tie) ELSE <<>>,
                  columns |-> IF ty \in {"all", "columns"} THEN SearchColumns(q, tie) ELSE <<>>,
                  transformations |-> IF wantsTransformations
                                      THEN SearchTransformations(q, tie) ELSE <<>>])
          /\ sent' = IF ty = "all" THEN 3 ELSE 1
  /\ pc' = "done"
  /\ UNCHANGED <<taskVars, tables, transformations, table_relationships, working, result>>

Queries ==
  {NullText, <<>>, <<"a">>, ab, <<"A", "B">>, <<"b", "c">>, <<"d", "d">>,
   <<"a", "_">>, <<"%", "%">>}

SearchRequests ==
  \E q \in Queries,
     type \in {NULL, "tables", "columns", "transformations", "all"},
     storeUp \in BOOLEAN :
    SearchGet(q, type, storeUp)

(***************************************************************************)
(* Columns of a table: POST /api/lineage/columns.                          *)
(***************************************************************************)
\* the layer names the columns handler accepts, with their ids
LAYER_MAP == [l \in {"bronze", "silver", "gold"} |->
                IF l = "bronze" THEN 1 ELSE IF l = "silver" THEN 2 ELSE 3]

ColumnsSuccess(table, layer, rows) ==
  [op |-> "columns", status |-> 200, error |-> NULL,
   columns |-> [i \in 1..Len(rows) |-> [id |-> rows[i].id, name |-> rows[i].name]],
   table_name |-> table, layer_name |-> layer, total_columns |-> Len(rows)]

ColumnsFailure(status, error) ==
  [op |-> "columns", status |-> status, error |-> error, columns |-> <<>>]

\* the rows of the columns query, ORDER BY c.name (ties by id)
ColumnsSelect(table, layer) ==
  SearchOrdered({c \in columns : /\ tables[c.table_id].name = table
                                  /\ LayerName(c.table_id) = layer},
                TRUE, "asc")

\* POST: the whole handler
ColumnsPost(table, layer, storeUp) ==
  /\ Ready
  /\ req' = [op |-> "columns", table |-> table, layer |-> layer, storeUp |-> storeUp]
  /\ IF Missing(table)
     THEN /\ resp' = ColumnsFailure(400, "Missing \"table\" parameter in request body")
          /\ sent' = 0
     ELSE IF layer = NULL \/ layer = ""
     THEN /\ resp' = ColumnsFailure(400, "Missing \"layer\" parameter in request body")
          /\ sent' = 0
     ELSE IF layer \notin DOMAIN LAYER_MAP
     THEN resp' = ColumnsFailure(400, "Invalid layer") /\ sent' = 0
     ELSE IF ~storeUp
     THEN resp' = ColumnsFailure(500, "Database error") /\ sent' = 1
     ELSE resp' = ColumnsSuccess(table, layer, ColumnsSelect(table, layer)) /\ sent' = 1
  /\ pc' = "done"
  /\ UNCHANGED <<taskVars, tables, transformations, table_relationships, working, result>>

ColumnsRequests ==
  \E table \in TableNames \cup {NullText},
     layer \in LayerNames \cup {NULL},
     storeUp \in BOOLEAN :
    ColumnsPost(table, layer, storeUp)

(***************************************************************************)
(* Transformation lookup: POST /api/lineage/transformations. table_id is a *)
(* number of the request body; 0 stands for 0 and for an absent table_id,  *)
(* which the handler does not tell apart.                                  *)
(***************************************************************************)
\* whereClause of the table branch: by name when table_name is given, by id
\* otherwise
LookupWhere(t, table_name, table_id, direction) ==
  IF ~Missing(table_name)
  THEN IF direction = "upstream" THEN tables[t.target_table_id].name = table_name
       ELSE IF direction = "downstream" THEN tables[t.source_table_id].name = table_name
       ELSE \/ tables[t.source_table_id].name = table_name
            \/ tables[t.target_table_id].name = table_name
  ELSE IF direction = "upstream" THEN t.target_table_id = table_id
       ELSE IF direction = "downstream" THEN t.source_table_id = table_id
       ELSE t.source_table_id = table_id \/ t.target_table_id = table_id

\* one mapped row of either query
LookupRow(t) ==
  [id |-> t.id, name |-> t.name, description |-> t.description,
   source_table |-> tables[t.source_table_id].name,
   target_table |-> tables[t.target_table_id].name,
   source_layer |-> LayerName(t.source_table_id),
   target_layer |-> LayerName(t.target_table_id),
   source_layer_id |-> tables[t.source_table_id].layer_id,
   target_layer_id |-> tables[t.target_table_id].layer_id,
   transformation_type |-> t.transformation_type,
   confidence_score |-> <<1, 1>>]

\* the orders in which rows of equal sort key can come (created_at is not
\* among the modelled columns): ascending or descending id
LookupTieOrders == {"asc", "desc"}

RECURSIVE LookupOrdered(_, _, _)
\* ORDER BY sl.id, tl.id, t.created_at DESC (byLayers), or ORDER BY
\* t.created_at DESC alone
LookupOrdered(S, byLayers, tie) ==
  IF S = {} THEN <<>>
  ELSE LET key(r) == IF byLayers THEN r.source_layer_id * 10 + r.target_layer_id ELSE 0
           first == CHOOSE r \in S : \A x \in S \ {r} :
                      \/ key(r) < key(x)
                      \/ /\ key(r) = key(x)
                         /\ IF tie = "asc" THEN r.id < x.id ELSE r.id > x.id
       IN <<first>> \o LookupOrdered(S \ {first}, byLayers, tie)

LookupSuccess(rows, table_name, layers_involved) ==
  [op |-> "transformations", status |-> 200, error |-> NULL,
   transformations |-> rows,
   summary |-> [total |-> Len(rows), table_name |-> table_name,
                layers_involved |-> layers_involved, avg_confidence |-> <<1, 1>>]]

LookupFailure(status, error) ==
  [op |-> "transformations", status |-> status, error |-> error,
   transformations |-> <<>>,
   summary |-> [total |-> 0, table_name |-> <<>>, layers_involved |-> <<>>,
                avg_confidence |-> <<0, 1>>]]

\* POST: the whole handler
LookupPost(table_name, table_id, source_layer, target_layer, direction, storeUp) ==
  LET dir == IF direction = NULL THEN "both" ELSE direction
      byTable == ~Missing(table_name) \/ table_id # 0
      byLayers == source_layer \notin {NULL, ""} /\ target_layer \notin {NULL, ""}
  IN
  /\ Ready
  /\ req' = [op |-> "transformations", table_name |-> table_name, table_id |-> table_id,
             source_layer |-> source_layer, target_layer |-> target_layer,
             direction |-> dir, storeUp |-> storeUp]
  /\ IF ~byTable /\ ~byLayers
     THEN /\ resp' = LookupFailure(400,
                 "Either table_name/table_id or source_layer/target_layer must be provided")
          /\ sent' = 0
     ELSE IF ~storeUp
     THEN resp' = LookupFailure(500, "Database error") /\ sent' = 1
     ELSE IF byTable
     THEN /\ \E tie \in LookupTieOrders :
               LET rows == LookupOrdered(
                             {LookupRow(t) : t \in {x \in transformations :
                                LookupWhere(x, table_name, table_id, dir)}}, TRUE, tie)
               IN resp' = LookupSuccess(rows,
                            IF ~Missing(table_name) THEN table_name
                            ELSE <<"Table ID ", table_id>>,
                            DistinctInOrder([i \in 1..Len(rows) |-> rows[i].source_layer]
                                            \o [i \in 1..Len(rows) |-> rows[i].target_layer]))
          /\ sent' = 1
     ELSE /\ \E tie \in LookupTieOrders :
               LET rows == LookupOrdered(
                             {LookupRow(t) : t \in {x \in transformations :
                                /\ LayerName(x.source_table_id) = source_layer
                                /\ LayerName(x.target_table_id) = target_layer}},
                             FALSE, tie)
               IN resp' = LookupSuccess(rows, <<source_layer, " -> ", target_layer>>,
                                        <<source_layer, target_layer>>)
          /\ sent' = 1
  /\ pc' = "done"
  /\ UNCHANGED <<taskVars, tables, transformations, table_relationships, working, result>>

LookupRequests ==
  \E table_name \in {NullText, ab},
     table_id \in {0, 1},
     source_layer \in {NULL, "bronze"},
     target_layer \in {NULL, "silver"},
     direction \in {NULL, "upstream", "downstream"},
     storeUp \in BOOLEAN :
    LookupPost(table_name, table_id, source_layer, target_layer, direction, storeUp)

ChainRequests ==
  \E table_name \in TableNames \cup {NullText},
     layer \in LayerNames \cup {NULL},
     direction \in {NULL, "upstream", "downstream"},
     storeUp \in BOOLEAN :
    ChainPost(table_name, layer, direction, storeUp)

(***************************************************************************)
(* The middleware. A pathname is a sequence of pieces ("/", "api", ...), no *)
(* piece a prefix of another, so that startsWith on the text is the prefix *)
(* relation on the sequences. user is "none" when getUser finds no session, *)
(* "error" when it throws, else "member" or "admin".                       *)
(***************************************************************************)
\* pathname.startsWith(route)
StartsWith(pathname, route) ==
  Len(route) <= Len(pathname) /\ SubSeq(pathname, 1, Len(route)) = route

protectedRoutes ==
  { <<"/", "dashboard">>, <<"/", "settings">>, <<"/", "profile">>, <<"/", "admin">>,
    <<"/", "api", "/", "lineage">>, <<"/", "api", "/", "tables">>,
    <<"/", "api", "/", "columns">>, <<"/", "api", "/", "relationships">>,
    <<"/", "api", "/", "transformations">> }

adminRoutes == { <<"/", "admin">>, <<"/", "api", "/", "admin">> }

publicRoutes ==
  { <<"/">>, <<"/", "about">>, <<"/", "contact">>, <<"/", "handler">>, <<"/", "auth">> }

\* NextResponse.next()
MiddlewareNext == [op |-> "middleware", kind |-> "next"]

\* NextResponse.redirect(signInUrl)
MiddlewareRedirect(pathname) ==
  [op |-> "middleware", kind |-> "redirect",
   location |-> <<"/", "handler", "/", "signin">>, after_auth_return_to |-> pathname]

MiddlewareDenied == [op |-> "middleware", kind |-> "denied", status |-> 403]

\* middleware: the whole function
middleware(pathname, user) ==
  /\ Ready
  /\ req' = [op |-> "middleware", pathname |-> pathname, user |-> user]
  /\ resp' =
       IF StartsWith(pathname, <<"/", "handler", "/">>) THEN MiddlewareNext
       ELSE IF \E route \in publicRoutes : StartsWith(pathname, route) THEN MiddlewareNext
       ELSE IF ~\E route \in protectedRoutes : StartsWith(pathname, route)
       THEN MiddlewareNext
       ELSE IF user = "error" \/ user = "none" THEN MiddlewareRedirect(pathname)
       ELSE IF (\E route \in adminRoutes : StartsWith(pathname, route)) /\ user # "admin"
       THEN MiddlewareDenied
       ELSE MiddlewareNext
  /\ pc' = "done"
  /\ sent' = 0
  /\ UNCHANGED <<taskVars, tables, transformations, table_relationships, working, result>>

\* the pathnames requested: the root, pages and API routes, each also with a
\* further segment
Pathnames ==
  LET pages == { <<"/", p>> : p \in {"dashboard", "settings", "profile", "admin", "about",
                                     "contact", "handler", "auth", "other"} }
      apis == { <<"/", "api", "/", a>> : a \in {"lineage", "tables", "columns",
                  "relationships", "transformations", "admin", "requests"} }
  IN {<<"/">>} \cup pages \cup apis \cup {p \o <<"/", "x">> : p \in pages \cup apis}

MiddlewareRequests ==
  \E pathname \in Pathnames, user \in {"none", "error", "member", "admin"} :
    middleware(pathname, user)

(***************************************************************************)
(* Task submission: POST /api/requests. Each call is a request in progress *)
(* with its own position; the calls share the tables agentic_users (email  *)
(* UNIQUE) and agentic_requests. A call awaits the store between its       *)
(* steps, where other calls can run.                                       *)
(***************************************************************************)
Calls == 1..MaxCalls

\* the e-mail addresses of the authenticated users
Emails == {"alice", "bob"}

\* gen_random_uuid(): an id no row of the table has
FreshId(rows) == Cardinality(rows) + 1

\* POST up to the first query: authentication, then validation of the body
TaskPost(c, user, valid) ==
  /\ calls[c].pc = "idle"
  /\ calls' = [calls EXCEPT ![c] =
       IF user = NULL
       THEN [pc |-> "done", user |-> user, valid |-> valid, status |-> 401,
             error |-> "Authentication required"]
       ELSE IF ~valid
       THEN [pc |-> "done", user |-> user, valid |-> valid, status |-> 400,
             error |-> "Validation failed"]
       ELSE [pc |-> "get_user", user |-> user, valid |-> valid]]
  /\ UNCHANGED <<lineageVars, agentic_users, agentic_requests>>

\* getAgenticUserByEmail: the row of the e-mail address, or null (0)
getAgenticUserByEmail(c) ==
  /\ calls[c].pc = "get_user"
  /\ LET found == {u \in agentic_users : u.email = calls[c].user}
     IN calls' = [calls EXCEPT ![c] =
          IF found # {}
          THEN [pc |-> "create_request", user |-> calls[c].user, valid |-> TRUE,
                agenticUser |-> (CHOOSE u \in found : TRUE).id]
          ELSE [pc |-> "create_user", user |-> calls[c].user, valid |-> TRUE,
                agenticUser |-> 0]]
  /\ UNCHANGED <<lineageVars, agentic_users, agentic_requests>>

\* createAgenticUser: INSERT INTO agentic_users; the insert of an e-mail
\* address the table holds violates UNIQUE and throws, which the handler's
\* catch answers with status 500
createAgenticUser(c) ==
  /\ calls[c].pc = "create_user"
  /\ IF \E u \in agentic_users : u.email = calls[c].user
     THEN /\ calls' = [calls EXCEPT ![c] =
               [pc |-> "done", user |-> calls[c].user, valid |-> TRUE, status |-> 500,
                error |-> "Failed to create request"]]
          /\ UNCHANGED agentic_users
     ELSE /\ agentic_users' = agentic_users
               \cup {[id |-> FreshId(agentic_users), email |-> calls[c].user]}
          /\ calls' = [calls EXCEPT ![c] =
               [pc |-> "create_request", user |-> calls[c].user, valid |-> TRUE,
                agenticUser |-> FreshId(agentic_users)]]
  /\ UNCHANGED <<lineageVars, agentic_requests>>

\* createAgenticRequest and the success response
createAgenticRequest(c) ==
  /\ calls[c].pc = "create_request"
  /\ agentic_requests' = agentic_requests
       \cup {[id |-> FreshId(agentic_requests), user_id |-> calls[c].agenticUser]}
  /\ calls' = [calls EXCEPT ![c] =
       [pc |-> "done", user |-> calls[c].user, valid |-> TRUE, status |-> 200,
        error |-> NULL, request |-> FreshId(agentic_requests)]]
  /\ UNCHANGED <<lineageVars, agentic_users>>

TaskRequests ==
  \E c \in Calls, user \in Emails \cup {NULL}, valid \in BOOLEAN : TaskPost(c, user, valid)

\* the response has been sent: everything the request held is dropped
Respond ==
  /\ pc = "done"
  /\ pc' = "idle"
  /\ req' = [op |-> "none"]
  /\ resp' = [op |-> "none"]
  /\ working' = EmptyRows
  /\ result' = EmptyRows
  /\ sent' = 0
  /\ UNCHANGED <<taskVars, tables, transformations, table_relationships>>

NextChain == Respond \/ ChainRequests \/ ChainCteStep \/ ChainAssemble

NextFlow == Respond \/ FlowRequests \/ FlowCteStep \/ FlowAssemble

NextRel == Respond \/ RelRequests

NextSearch == Respond \/ SearchRequests

NextColumns == Respond \/ ColumnsRequests

NextLookup == Respond \/ LookupRequests

NextMiddleware == Respond \/ MiddlewareRequests

NextTasks ==
  \/ TaskRequests
  \/ \E c \in Calls : getAgenticUserByEmail(c)
  \/ \E c \in Calls : createAgenticUser(c)
  \/ \E c \in Calls : createAgenticRequest(c)

Next ==
  \/ NextChain \/ NextFlow \/ NextRel \/ NextSearch \/ NextColumns \/ NextLookup
  \/ NextMiddleware \/ NextTasks

Spec == Init /\ [][Next]_vars

\* one operation at a time
SpecChain == Init /\ [][NextChain]_vars

SpecFlow == Init /\ [][NextFlow]_vars

SpecRel == Init /\ [][NextRel]_vars

SpecSearch == Init /\ [][NextSearch]_vars

\* the query layer: relationship lookup and search
SpecQuery == Init /\ [][NextRel \/ NextSearch]_vars

\* the handlers that validate their request: all but the full flow
SpecValidating ==
  Init /\ [][NextChain \/ NextRel \/ NextSearch \/ NextColumns \/ NextLookup]_vars

SpecMiddleware == Init /\ [][NextMiddleware]_vars

SpecTasks == Init /\ [][NextTasks]_vars

\* the two traversals
SpecTraversal == Init /\ [][NextChain \/ NextFlow]_vars

(***************************************************************************)
(* Properties.                                                             *)
(***************************************************************************)
Done(op) == pc = "done" /\ resp.op = op

Succeeded(op) == Done(op) /\ resp.status = 200 /\ resp.error = NULL

NoDuplicateIds(nodes) ==
  \A i, j \in 1..Len(nodes) : nodes[i].id = nodes[j].id => i = j

\* C1: the nodes list of a lineage-chain result and of a full-flow result
\* holds each table id at most once
C1_NoDuplicateNodes ==
  (Done("chain") \/ Done("flow")) => NoDuplicateIds(resp.nodes)

\* the full-flow half of C1 alone
C1_FlowNodesDistinct == Done("flow") => NoDuplicateIds(resp.nodes)

\* the returned nodes an edge names as its source / target
IsSourceOf(n, e) == n.name = e.source /\ n.layer = e.source_layer

IsTargetOf(n, e) == n.name = e.target /\ n.layer = e.target_layer

\* C2: in a lineage-chain result the seed table has depth 0 and every returned
\* edge u -> v has depth(v) = depth(u) + 1 on the returned nodes u and v
C2_DepthMonotone ==
  Succeeded("chain") =>
    /\ \A i \in 1..Len(resp.nodes) :
         (resp.nodes[i].name = req.table_name /\ resp.nodes[i].layer = req.layer)
           => resp.nodes[i].depth = 0
    /\ \A k \in 1..Len(resp.edges) : \A i, j \in 1..Len(resp.nodes) :
         (IsSourceOf(resp.nodes[i], resp.edges[k]) /\ IsTargetOf(resp.nodes[j], resp.edges[k]))
           => resp.nodes[j].depth = resp.nodes[i].depth + 1

\* C3: no edge of a full-flow result is deeper than the requested max_depth,
\* and summary.max_depth is at most max_depth
C3_DepthBound ==
  Succeeded("flow") =>
    /\ \A k \in 1..Len(resp.edges) : resp.edges[k].depth <= req.maxDepth
    /\ resp.summary.max_depth <= req.maxDepth

\* the same for max_depth >= 1
C3_DepthBoundFromOne ==
  (Succeeded("flow") /\ req.maxDepth >= 1) =>
    /\ \A k \in 1..Len(resp.edges) : resp.edges[k].depth <= req.maxDepth
    /\ resp.summary.max_depth <= req.maxDepth

Traversing == pc \in {"chain_cte", "flow_cte"}

\* the depths of the rows of the working table
WorkingDepths ==
  {r.depth : r \in IF pc = "chain_cte" THEN RowSet(working) ELSE working}

\* the deepest row a traversal may produce: the limit of the lineage chain;
\* for the full flow max_depth, and 1 for the rows of the non-recursive term
DepthCeiling ==
  IF pc = "chain_cte" THEN ChainDepthLimit
  ELSE IF req.maxDepth > 1 THEN req.maxDepth ELSE 1

\* C4: both traversals (lineage chain, full flow) terminate with a finite
\* result on every edge relation, cycles and self-loops included: the rows of
\* the working table of the recursive query never lie deeper than the bound,
\* and every iteration leaves in the working table only rows strictly deeper
\* than those before it, so the working table is empty and the answer is
\* assembled after at most bound + 1 iterations
C4_Terminates ==
  /\ [](Traversing => \A d \in WorkingDepths : d <= DepthCeiling)
  /\ [][(Traversing /\ pc' = pc) =>
          \A d \in WorkingDepths : \A e \in WorkingDepths' : e > d]_vars

\* a lineage chain over a cycle through the seed has been resolved: the seed
\* comes back at the depth limit
C4_CycleTraversed ==
  /\ Succeeded("chain")
  /\ \E i \in 1..Len(resp.nodes) :
       /\ resp.nodes[i].name = req.table_name
       /\ resp.nodes[i].layer = req.layer
       /\ resp.nodes[i].depth = ChainDepthLimit

\* the relationships hold the cycle a -> b -> c -> a over three tables
HasCycle(a, b, c) ==
  /\ Cardinality({a, b, c}) = 3
  /\ \A p \in {<<a, b>>, <<b, c>>, <<c, a>>} :
       \E tr \in table_relationships :
         tr.source_table_id = p[1] /\ tr.target_table_id = p[2]

\* C5: with the cycle A -> B -> C -> A, a full flow started from A has no edge
\* into A and no edge out of A at a depth greater than 1
C5_NoRevisit ==
  Succeeded("flow") =>
    \A a, b, c \in TableIds :
      (HasCycle(a, b, c) /\ tables[a].name = req.start_table
         /\ \A t \in TableIds \ {a} : tables[t].name # req.start_table)
      => \A k \in 1..Len(resp.edges) :
           /\ resp.edges[k].target # a
           /\ resp.edges[k].source = a => resp.edges[k].depth <= 1

\* the table a relationship lookup is about: by id, or by name
RelAbout(r, side) ==
  IF ~Missing(req.table_id)
  THEN (IF side = "source" THEN r.source_table_id ELSE r.target_table_id)
         = ParseInt(req.table_id)
  ELSE (IF side = "source" THEN r.source_table ELSE r.target_table) = req.table_name

\* C6: upstream returns only edges into T, labelled upstream; downstream only
\* edges out of T, labelled downstream; both labels an edge downstream exactly
\* when T is its source
C6_DirectionCorrect ==
  (Succeeded("relationships") /\ (~Missing(req.table_id) \/ ~Missing(req.table_name))) =>
    \A i \in 1..Len(resp.relationships) :
      LET r == resp.relationships[i]
      IN CASE req.direction = "upstream" ->
                RelAbout(r, "target") /\ r.direction = "upstream"
           [] req.direction = "downstream" ->
                RelAbout(r, "source") /\ r.direction = "downstream"
           [] OTHER -> (r.direction = "downstream") <=> RelAbout(r, "source")

\* the same for relationships between two different tables of different names
C6_DirectionCorrectPlainEdges ==
  (Succeeded("relationships") /\ (~Missing(req.table_id) \/ ~Missing(req.table_name))) =>
    \A i \in 1..Len(resp.relationships) :
      LET r == resp.relationships[i]
      IN r.source_table # r.target_table =>
         CASE req.direction = "upstream" ->
                RelAbout(r, "target") /\ r.direction = "upstream"
           [] req.direction = "downstream" ->
                RelAbout(r, "source") /\ r.direction = "downstream"
           [] OTHER -> (r.direction = "downstream") <=> RelAbout(r, "source")

SearchResultsEmpty ==
  /\ resp.results.tables = <<>>
  /\ resp.results.columns = <<>>
  /\ resp.results.transformations = <<>>

\* C7: a search whose q is absent or shorter than 2 characters is rejected
\* (status 400, empty results, an error message); a q of 2 characters or more
\* is never rejected so, and is answered with status 200 and no error when the
\* store answers its queries, also when nothing matches
C7_SearchValidation ==
  Done("search") =>
    /\ (Missing(req.q) \/ Len(req.q) < 2)
         => resp.status = 400 /\ SearchResultsEmpty /\ resp.error # NULL
    /\ (~Missing(req.q) /\ Len(req.q) >= 2)
         => /\ resp.status # 400
            /\ req.storeUp => resp.status = 200 /\ resp.error = NULL

\* a query of two characters that matches nothing was accepted
C7_AcceptedWithoutMatch ==
  /\ Succeeded("search")
  /\ Len(req.q) = 2
  /\ resp.results.total = 0
  /\ req.type = "all"

\* C8: summary.total of a relationship response is the number of
\* relationships returned; results.total of a search response is the sum of
\* the lengths of its three lists; in every response
C8_SummaryTotals ==
  /\ Done("relationships") => resp.summary.total = Len(resp.relationships)
  /\ Done("search") =>
       resp.results.total = Len(resp.results.tables) + Len(resp.results.columns)
                              + Len(resp.results.transformations)

\* a relationship response with several relationships
C8_SeveralRelationships ==
  Succeeded("relationships") /\ Len(resp.relationships) >= 2

\* C9: summary.avg_confidence is the arithmetic mean of the confidence scores
\* returned, and 0 when none is returned
C9_AvgConfidence ==
  Done("relationships") =>
    LET n == Len(resp.relationships)
        conf == [i \in 1..n |-> resp.relationships[i].confidence_score]
        avg == resp.summary.avg_confidence
    IN IF n = 0 THEN avg = <<0, 1>>
       ELSE avg[2] > 0 /\ avg[1] * n = SumOver(1..n, conf) * avg[2]

\* three relationships whose mean confidence is no whole number of hundredths
C9_MixedConfidences ==
  /\ Succeeded("relationships")
  /\ Len(resp.relationships) = 3
  /\ resp.summary.avg_confidence[2] = 3

\* the lines of a kind in a diagram
LinesOfKind(m, kind) == {i \in 1..Len(m) : m[i].kind = kind}

\* the store of the example: one table in each of bronze, silver and gold, a
\* cleansing from the first to the second and an aggregation from the second
\* to the third
ExampleStore ==
  /\ \A t \in TableIds : tables[t].layer_id = t
  /\ transformations = { TransformationRow([source |-> 1, target |-> 2, kind |-> 1]),
                         TransformationRow([source |-> 2, target |-> 3, kind |-> 2]) }

\* C11: over the example store the lineage chain of the bronze table has
\* exactly 3 nodes, 2 edges, total_depth 2, layers_involved bronze, silver,
\* gold, and a diagram with 3 subgraphs and 2 connections labelled with the
\* kinds of the two transformations
C11_ChainExample ==
  (Succeeded("chain") /\ ExampleStore
     /\ req.table_name = tables[1].name /\ req.layer = "bronze") =>
    /\ Len(resp.nodes) = 3
    /\ Len(resp.edges) = 2
    /\ resp.total_depth = 2
    /\ resp.layers_involved = <<"bronze", "silver", "gold">>
    /\ Cardinality(LinesOfKind(resp.mermaid_syntax, "subgraph")) = 3
    /\ Cardinality(LinesOfKind(resp.mermaid_syntax, "connection")) = 2
    /\ {resp.mermaid_syntax[i].label : i \in LinesOfKind(resp.mermaid_syntax, "connection")}
         = {"cleansing", "aggregation"}

\* the example has been resolved
C11_ExampleResolved ==
  /\ Succeeded("chain")
  /\ ExampleStore
  /\ req.table_name = tables[1].name
  /\ req.layer = "bronze"

\* no table of the requested name lies in the requested layer
SeedMissing ==
  \A t \in TableIds : ~(tables[t].name = req.table_name /\ LayerName(t) = req.layer)

\* no relationship starts at a table of the requested name
StartMissing ==
  \A tr \in table_relationships : tables[tr.source_table_id].name # req.start_table

\* C12: a lineage chain whose seed table does not exist in the given layer,
\* and a full flow from a start_table at which no relationship starts, is
\* answered (when the store answers the query) with status 200, no error and
\* the empty graph: no nodes, no edges, depth 0, no layers
C12_MissingSeedEmptyGraph ==
  /\ (Done("chain") /\ ~Missing(req.table_name) /\ req.layer \notin {NULL, ""}
        /\ req.failedQuery = 0 /\ SeedMissing) =>
       /\ resp.status = 200 /\ resp.error = NULL
       /\ resp.nodes = <<>> /\ resp.edges = <<>>
       /\ resp.total_depth = 0 /\ resp.layers_involved = <<>>
  /\ (Done("flow") /\ ~Missing(req.start_table) /\ StartMissing
        /\ req.storeUp /\ (Missing(req.max_depth) \/ ~IsNaN(req.max_depth))) =>
       /\ resp.status = 200 /\ resp.error = NULL
       /\ resp.nodes = <<>> /\ resp.edges = <<>>
       /\ resp.summary = [total_nodes |-> 0, total_edges |-> 0, max_depth |-> 0,
                          layers |-> <<>>]

\* a lineage chain was asked for a table name that exists, but in another layer
C12_SeedInOtherLayer ==
  /\ Succeeded("chain")
  /\ SeedMissing
  /\ \E t \in TableIds : tables[t].name = req.table_name

\* C13: when a store query of a lineage-chain request fails (the recursive
\* query, a column count, a transformation query between two nodes), the
\* response carries an error message and empty nodes, edges and mermaid_syntax
C13_AllOrNothing ==
  (Done("chain") /\ req.failedQuery > 0) =>
    /\ resp.error # NULL
    /\ resp.nodes = <<>>
    /\ resp.edges = <<>>
    /\ resp.mermaid_syntax = <<>>

\* a transformation query failed after at least two nodes had been gathered
C13_FailedAfterProgress ==
  /\ Done("chain")
  /\ req.failedQuery >= 4
  /\ sent = req.failedQuery
  /\ resp.status = 500

\* the request in hand fails the validation of its handler
ValidationFails ==
  CASE req.op = "chain" -> Missing(req.table_name) \/ req.layer \in {NULL, ""}
    [] req.op = "columns" ->
         Missing(req.table) \/ req.layer \notin {"bronze", "silver", "gold"}
    [] req.op = "relationships" -> ~Missing(req.table_id) /\ IsNaN(req.table_id)
    [] req.op = "transformations" ->
         /\ Missing(req.table_name) /\ req.table_id = 0
         /\ req.source_layer \in {NULL, ""} \/ req.target_layer \in {NULL, ""}
    [] req.op = "search" -> Missing(req.q) \/ Len(req.q) < 2
    [] OTHER -> FALSE

\* C14: a request that fails validation is answered with a 4xx status and
\* without a query having been sent to the store
C14_ValidationRejected ==
  (pc = "done" /\ ValidationFails) => resp.status \in 400..499 /\ sent = 0

\* the same without the relationship lookup
C14_ValidationRejectedElsewhere ==
  (pc = "done" /\ ValidationFails /\ req.op # "relationships")
    => resp.status \in 400..499 /\ sent = 0

RECURSIVE Downstream(_)
\* the tables reached from the tables S along transformations, S included
Downstream(S) ==
  LET next == S \cup {t.target_table_id :
                        t \in {x \in transformations : x.source_table_id \in S}}
  IN IF next = S THEN S ELSE Downstream(next)

\* the tables a lineage-chain request names as its seed
SeedIds ==
  {t \in TableIds : tables[t].name = req.table_name /\ LayerName(t) = req.layer}

\* C15: a lineage chain with direction upstream returns only the seed and
\* tables from which the seed is reached, with direction downstream only the
\* seed and tables reached from the seed, with both only tables of either sort
C15_DirectionScope ==
  Succeeded("chain") =>
    \A i \in 1..Len(resp.nodes) :
      LET id == resp.nodes[i].id
          up == \E s \in SeedIds : s \in Downstream({id})
          down == id \in Downstream(SeedIds)
      IN CASE req.direction = "upstream" -> up
           [] req.direction = "downstream" -> down
           [] OTHER -> up \/ down

\* the same for the directions downstream and both
C15_DownstreamScope ==
  (Succeeded("chain") /\ req.direction # "upstream") =>
    \A i \in 1..Len(resp.nodes) : resp.nodes[i].id \in Downstream(SeedIds)

\* C16: the edge list of a full-flow result has no two entries with the same
\* (source, target, kind)
C16_FlowEdgesDeduplicated ==
  Succeeded("flow") =>
    \A i, j \in 1..Len(resp.edges) :
      (/\ resp.edges[i].source = resp.edges[j].source
       /\ resp.edges[i].target = resp.edges[j].target
       /\ resp.edges[i].type = resp.edges[j].type) => i = j

\* C17: when transformations of different kinds join the same source and
\* target table and both tables are in a lineage-chain result, the edge list
\* holds an edge of each of the kinds between the two
C17_ParallelKindsRetained ==
  Succeeded("chain") =>
    \A t, u \in transformations :
      (/\ t.source_table_id = u.source_table_id
       /\ t.target_table_id = u.target_table_id
       /\ t.transformation_type # u.transformation_type
       /\ \E i, j \in 1..Len(resp.nodes) :
            resp.nodes[i].id = t.source_table_id /\ resp.nodes[j].id = t.target_table_id)
      => \E k \in 1..Len(resp.edges) :
           /\ resp.edges[k].source = tables[t.source_table_id].name
           /\ resp.edges[k].source_layer = LayerName(t.source_table_id)
           /\ resp.edges[k].target = tables[t.target_table_id].name
           /\ resp.edges[k].target_layer = LayerName(t.target_table_id)
           /\ resp.edges[k].transformation_type = t.transformation_type

RECURSIVE ShortestPath(_, _, _)
\* the length of a shortest path of transformations from a table of S to
\* table t, d steps having been taken to reach S; -1 when there is none
ShortestPath(S, t, d) ==
  IF t \in S THEN d
  ELSE LET next == S \cup {x.target_table_id :
                             x \in {y \in transformations : y.source_table_id \in S}}
       IN IF next = S THEN -1 ELSE ShortestPath(next, t, d + 1)

\* C18: the depth of every node of a lineage-chain result is the length of a
\* shortest path of transformations from the seed to its table
C18_FirstReachedDepth ==
  Succeeded("chain") =>
    \A i \in 1..Len(resp.nodes) :
      resp.nodes[i].depth = ShortestPath(SeedIds, resp.nodes[i].id, 0)

\* the rank of a layer: its id in layers
LayerRank(layerName) == CHOOSE i \in LayerIds : layers[i] = layerName

\* a node list in the order (layer rank ascending, table name ascending)
OrderedByLayerThenName(nodes) ==
  \A i, j \in 1..Len(nodes) :
    i < j => \/ LayerRank(nodes[i].layer) < LayerRank(nodes[j].layer)
             \/ /\ nodes[i].layer = nodes[j].layer
                /\ ~StrLess(nodes[j].name, nodes[i].name)

\* C19: the nodes list of a lineage-chain response and of a full-flow response
\* is ordered by layer rank ascending, then table name ascending
C19_NodeOrder ==
  (Succeeded("chain") \/ Succeeded("flow")) => OrderedByLayerThenName(resp.nodes)

\* the lineage-chain half of C19 alone
C19_ChainNodeOrder == Succeeded("chain") => OrderedByLayerThenName(resp.nodes)

\* the subtitle a layer name is to carry in the title of its subgraph
Subtitle(layerName) ==
  CASE layerName = "bronze" -> "Raw Data"
    [] layerName = "silver" -> "Cleansed Data"
    [] layerName = "gold" -> "Business Ready"
    [] OTHER -> ""

\* the subgraph a line of the diagram lies in: the last subgraph opened before it
EnclosingSubgraph(m, i) ==
  m[CHOOSE k \in LinesOfKind(m, "subgraph") :
      k < i /\ \A x \in LinesOfKind(m, "subgraph") : x < i => x <= k]

\* C20: the diagram has exactly one subgraph per layer of the node list, every
\* node is declared inside the subgraph of its layer, and the title of a
\* subgraph carries Raw Data for bronze, Cleansed Data for silver, Business
\* Ready for gold and no subtitle for any other layer
C20_LayerSubgraphs ==
  Succeeded("chain") =>
    LET m == resp.mermaid_syntax
        present == {resp.nodes[i].layer : i \in 1..Len(resp.nodes)}
    IN /\ Cardinality(LinesOfKind(m, "subgraph")) = Cardinality(present)
       /\ \A l \in present :
            \E k \in LinesOfKind(m, "subgraph") :
              m[k].title = LayerTitle(l) /\ m[k].description = Subtitle(l)
       /\ \A i \in 1..Len(resp.nodes) :
            \E k \in LinesOfKind(m, "node") :
              /\ m[k].id = NodeId(resp.nodes[i].layer, resp.nodes[i].name)
              /\ EnclosingSubgraph(m, k).title = LayerTitle(resp.nodes[i].layer)

\* the same for nodes of the layers bronze, silver and gold
C20_MedallionSubgraphs ==
  (Succeeded("chain")
     /\ \A i \in 1..Len(resp.nodes) : resp.nodes[i].layer \in {"bronze", "silver", "gold"}) =>
    LET m == resp.mermaid_syntax
        present == {resp.nodes[i].layer : i \in 1..Len(resp.nodes)}
    IN /\ Cardinality(LinesOfKind(m, "subgraph")) = Cardinality(present)
       /\ \A l \in present :
            \E k \in LinesOfKind(m, "subgraph") :
              m[k].title = LayerTitle(l) /\ m[k].description = Subtitle(l)
       /\ \A i \in 1..Len(resp.nodes) :
            \E k \in LinesOfKind(m, "node") :
              /\ m[k].id = NodeId(resp.nodes[i].layer, resp.nodes[i].name)
              /\ EnclosingSubgraph(m, k).title = LayerTitle(resp.nodes[i].layer)

\* C21: the node identifiers declared in a generated diagram are pairwise
\* distinct
C21_NodeIdsDistinct ==
  Succeeded("chain") =>
    \A i, j \in LinesOfKind(resp.mermaid_syntax, "node") :
      resp.mermaid_syntax[i].id = resp.mermaid_syntax[j].id => i = j

\* the same for a node list that holds no table twice
C21_NodeIdsDistinctWithoutDuplicates ==
  (Succeeded("chain") /\ NoDuplicateIds(resp.nodes)) =>
    \A i, j \in LinesOfKind(resp.mermaid_syntax, "node") :
      resp.mermaid_syntax[i].id = resp.mermaid_syntax[j].id => i = j

\* the connection lines of a diagram, in order
Connections(m) == SelectSeq(m, LAMBDA line : line.kind = "connection")

\* C22: the diagram holds exactly one connection per edge, in the order of the
\* edges, from the identifier of the source node to that of the target node
\* and labelled with the kind of the edge; every connection comes after the
\* end of the last subgraph and names only identifiers declared in a subgraph
C22_ConnectionPerEdge ==
  Succeeded("chain") =>
    LET m == resp.mermaid_syntax
        declared == {m[i].id : i \in LinesOfKind(m, "node")}
    IN /\ Len(Connections(m)) = Len(resp.edges)
       /\ \A k \in 1..Len(resp.edges) :
            /\ Connections(m)[k].source
                 = <<UpperCase(resp.edges[k].source_layer), "_">> \o resp.edges[k].source
            /\ Connections(m)[k].target
                 = <<UpperCase(resp.edges[k].target_layer), "_">> \o resp.edges[k].target
            /\ Connections(m)[k].label = resp.edges[k].transformation_type
       /\ \A c \in LinesOfKind(m, "connection") :
            /\ \A e \in LinesOfKind(m, "end") \cup LinesOfKind(m, "subgraph")
                 \cup LinesOfKind(m, "node") : e < c
            /\ m[c].source \in declared
            /\ m[c].target \in declared

\* a diagram with connections between subgraphs of several layers
C22_SeveralConnections ==
  /\ Succeeded("chain")
  /\ Len(resp.edges) >= 2
  /\ Cardinality(LinesOfKind(resp.mermaid_syntax, "subgraph")) >= 2

\* C23: in an accepted search each of the three result lists has at most 10
\* entries and is non-empty only if its type was requested; suggestions.tables
\* has at most 3 names, each the name of a returned table; suggestions.layers
\* has at most 3 distinct layer names, each the layer of a returned table
C23_SearchLimits ==
  Succeeded("search") =>
    LET res == resp.results
        sug == resp.suggestions
    IN /\ Len(res.tables) <= 10 /\ Len(res.columns) <= 10
       /\ Len(res.transformations) <= 10
       /\ res.tables # <<>> => req.type \in {"all", "tables"}
       /\ res.columns # <<>> => req.type \in {"all", "columns"}
       /\ res.transformations # <<>> => req.type \in {"all", "transformations"}
       /\ Len(sug.tables) <= 3
       /\ \A i \in 1..Len(sug.tables) :
            \E j \in 1..Len(res.tables) : res.tables[j].name = sug.tables[i]
       /\ Len(sug.layers) <= 3
       /\ \A i, j \in 1..Len(sug.layers) : sug.layers[i] = sug.layers[j] => i = j
       /\ \A i \in 1..Len(sug.layers) :
            \E j \in 1..Len(res.tables) : res.tables[j].layer = sug.layers[i]

\* a search that matched more than 10 columns and tables of more than 3 layers
C23_CapsReached ==
  /\ Succeeded("search")
  /\ Len(resp.results.columns) = 10
  /\ Len(resp.results.tables) > 3
  /\ Len(resp.suggestions.tables) = 3
  /\ Len(resp.suggestions.layers) = 3
  /\ Cardinality({resp.results.tables[j].layer : j \in 1..Len(resp.results.tables)}) > 3

\* q occurs in text as a contiguous run of characters
Contains(text, q) ==
  \E i \in 0..(Len(text) - Len(q)) : SubSeq(text, i + 1, i + Len(q)) = q

\* C24: a table is returned by a search only if the query occurs literally,
\* ignoring case, as a contiguous substring of its name or its description,
\* also for queries that hold the characters % and _
C24_LiteralSubstring ==
  Succeeded("search") =>
    \A i \in 1..Len(resp.results.tables) :
      LET t == resp.results.tables[i]
      IN \/ Contains(Lower(t.name), Lower(req.q))
         \/ t.description # NullText /\ Contains(Lower(t.description), Lower(req.q))

\* the same for queries without the characters % and _
C24_PlainQueries ==
  (Succeeded("search") /\ \A k \in 1..Len(req.q) : req.q[k] \notin {"%", "_"}) =>
    \A i \in 1..Len(resp.results.tables) :
      LET t == resp.results.tables[i]
      IN \/ Contains(Lower(t.name), Lower(req.q))
         \/ t.description # NullText /\ Contains(Lower(t.description), Lower(req.q))

\* C25: in a full flow with an end_table and max_depth D no returned edge of a
\* depth below D has end_table as its target
C25_EndTableExcluded ==
  (Succeeded("flow") /\ ~Missing(req.end_table)) =>
    \A k \in 1..Len(resp.edges) :
      resp.edges[k].depth < req.maxDepth
        => tables[resp.edges[k].target].name # req.end_table

\* the same for the edges of depth 2 and more that the depth before the last
\* has not produced
C25_EndTableExcludedBelowLast ==
  (Succeeded("flow") /\ ~Missing(req.end_table)) =>
    \A k \in 1..Len(resp.edges) :
      (resp.edges[k].depth > 1 /\ resp.edges[k].depth < req.maxDepth)
        => tables[resp.edges[k].target].name # req.end_table

\* C28: every edge (with its depth) of a full flow with an end_table is an edge
\* of the same request without end_table
C28_EndTableOnlyFilters ==
  (Succeeded("flow") /\ ~Missing(req.end_table)) =>
    \A k \in 1..Len(resp.edges) :
      \E r \in FlowRows(req.start_table, req.maxDepth, NullText) :
        r.relationship_id = resp.edges[k].id /\ r.depth = resp.edges[k].depth

\* the same for the edges above the last depth
C28_EndTableOnlyFiltersBelowLast ==
  (Succeeded("flow") /\ ~Missing(req.end_table)) =>
    \A k \in 1..Len(resp.edges) :
      resp.edges[k].depth < req.maxDepth =>
        \E r \in FlowRows(req.start_table, req.maxDepth, NullText) :
          r.relationship_id = resp.edges[k].id /\ r.depth = resp.edges[k].depth

\* C26: every node of a lineage-chain result other than the seed is the target
\* of a returned edge whose source is a returned node one level less deep
C26_EdgesReachNodes ==
  Succeeded("chain") =>
    \A i \in 1..Len(resp.nodes) :
      resp.nodes[i].id \notin SeedIds =>
        \E k \in 1..Len(resp.edges) : \E j \in 1..Len(resp.nodes) :
          /\ IsTargetOf(resp.nodes[i], resp.edges[k])
          /\ IsSourceOf(resp.nodes[j], resp.edges[k])
          /\ resp.nodes[j].depth = resp.nodes[i].depth - 1

\* C29: the source and the target of every edge of a lineage-chain response
\* and of a full-flow response are in its node list; in a full-flow response
\* summary.total_nodes and summary.total_edges are the lengths of nodes and
\* edges, and summary.layers holds exactly the layers of the nodes, each once
C29_GraphClosed ==
  /\ Done("chain") =>
       \A k \in 1..Len(resp.edges) :
         /\ \E i \in 1..Len(resp.nodes) : IsSourceOf(resp.nodes[i], resp.edges[k])
         /\ \E j \in 1..Len(resp.nodes) : IsTargetOf(resp.nodes[j], resp.edges[k])
  /\ Done("flow") =>
       LET ids == {resp.nodes[i].id : i \in 1..Len(resp.nodes)}
           ls == resp.summary.layers
       IN /\ \A k \in 1..Len(resp.edges) :
               resp.edges[k].source \in ids /\ resp.edges[k].target \in ids
          /\ resp.summary.total_nodes = Len(resp.nodes)
          /\ resp.summary.total_edges = Len(resp.edges)
          /\ Range(ls) = {resp.nodes[i].layer : i \in 1..Len(resp.nodes)}
          /\ \A i, j \in 1..Len(ls) : ls[i] = ls[j] => i = j

\* a full flow over several edges whose last table is the source of no edge
C29_FlowWithSink ==
  /\ Succeeded("flow")
  /\ Len(resp.edges) >= 2
  /\ \E i \in 1..Len(resp.nodes) :
       \A k \in 1..Len(resp.edges) : resp.edges[k].source # resp.nodes[i].id

\* C27: a request to a path under a protected prefix that carries no
\* authenticated user is answered with a redirect to the sign-in page and is
\* not passed through
C27_ProtectedRoutesRedirect ==
  (Done("middleware") /\ req.user = "none"
     /\ \E route \in protectedRoutes : StartsWith(req.pathname, route)) =>
    /\ resp.kind = "redirect"
    /\ resp.location = <<"/", "handler", "/", "signin">>

\* what the middleware does hold of every request: it is passed through
C27_EveryRequestPasses == Done("middleware") => resp.kind = "next"

\* C30: whatever the interleaving of the calls, agentic_users holds at most
\* one row per e-mail address, and every call of an authenticated user with a
\* valid body ends with success, none with Failed to create request
C30_ConcurrentSubmission ==
  /\ \A u, v \in agentic_users : u.email = v.email => u = v
  /\ \A c \in Calls :
       (calls[c].pc = "done" /\ calls[c].user # NULL /\ calls[c].valid)
         => calls[c].status = 200

\* the first half of C30 alone
C30_OneUserPerEmail == \A u, v \in agentic_users : u.email = v.email => u = v

\* the second half of C30 for calls that found the user record
C30_CallsWithRecordSucceed ==
  \A c \in Calls :
    (calls[c].pc = "done" /\ calls[c].user # NULL /\ calls[c].valid
       /\ calls[c].status # 200)
      => \E d \in Calls \ {c} : d # c /\ calls[d].pc # "idle" /\ calls[d].user = calls[c].user

====
